---- MODULE Spec2Model ----
(***************************************************************************)
(* Genetic algorithm with elitism for the 0/1 knapsack problem             *)
(* (GeneticAlgorithm_Elitism.py).                                          *)
(*                                                                         *)
(* Python objects are modelled with identity.  A Chromosome object is an   *)
(* index into chroms; its genes attribute is a reference (an index into    *)
(* lists) to a Python list of the one-character strings "0" and "1".       *)
(* Python positions are 0-based: position i of a gene list g is g[i + 1].  *)
(* knapsack is the dict built by build_knapsack: a function from the keys  *)
(* 0..count-1 to <<worth, weight>>; reading a missing key is a KeyError.   *)
(* mutation_rate is held in hundredths (25 stands for 0.25).               *)
(*                                                                         *)
(* The constructor's while loop takes one step per draw; evolve() is one   *)
(* step.  An exception ends the run: "ctor_error" leaves no engine,        *)
(* "evolve_error" leaves the engine with the population selection() has    *)
(* drained so far.  The random source is an input: random.choice sets the  *)
(* genes at DrawnPositions freely, and random.sample returns the k         *)
(* consecutive positions (modulo the length) that start at a seed.         *)
(***************************************************************************)
EXTENDS Integers, Sequences, FiniteSets, TLC

VARIABLES
    knapsack,         \* self.knapsack
    weight_limit,     \* self.weight_limit
    population_size,  \* self.population_size
    mutation_rate,    \* self.mutation_rate, in hundredths
    population,       \* self.population: sequence of Chromosome references
    chroms,           \* heap of Chromosome objects: [genes, fitness, weight]
    lists,            \* heap of gene lists
    status,           \* "constructing", "idle", "ctor_error", "evolve_error"
    raised,           \* the method in which the exception was raised, "" if none
    generation,       \* evolve() calls made so far: 0, 1, or 2 for two and more
    log               \* what the last evolve() call did, one record per iteration

vars == <<knapsack, weight_limit, population_size, mutation_rate,
          population, chroms, lists, status, raised, generation, log>>

\* range(10) in initialize_population
GENE_COUNT == 10

\* the slice bound of crossover
SPLIT == 5

\* largest population_size explored
MaxPop == 3

-----------------------------------------------------------------------------
(* Inputs *)

\* ten items; the two light ones do not fit together, the second is worth more
CatalogA ==
    [items |-> [i \in 0..9 |-> IF i = 0 THEN <<10, 5>>
                               ELSE IF i = 6 THEN <<30, 6>> ELSE <<40, 11>>],
     limit |-> 10]

\* eleven items; the two light ones do not fit together, the first is worth more
CatalogB ==
    [items |-> [i \in 0..10 |-> IF i = 0 THEN <<30, 5>>
                                ELSE IF i = 6 THEN <<10, 6>>
                                ELSE IF i = 10 THEN <<50, 3>> ELSE <<40, 11>>],
     limit |-> 10]

\* seven items; the two light ones fit together
CatalogC ==
    [items |-> [i \in 0..6 |-> IF i = 0 THEN <<10, 5>>
                               ELSE IF i = 6 THEN <<30, 5>> ELSE <<40, 11>>],
     limit |-> 10]

\* ten items and capacity 0: only the empty selection fits
CatalogD ==
    [items |-> [i \in 0..9 |-> IF i = 0 THEN <<10, 5>> ELSE <<40, 11>>],
     limit |-> 0]

Catalogs == {CatalogA, CatalogB, CatalogC, CatalogD}

\* population_size values handed to the constructor
PopSizes == (-1)..MaxPop

\* mutation_rate values handed to the constructor, in hundredths
Rates == {-10, -5, 0, 5, 25, 100, 110}

\* the random source: the positions at which random.choice draws "1"
DrawnPositions == {0, 3, 6, 9}

\* the members random.choice builds, one bit for each of range(10)
GeneVectors ==
    {[i \in 1..GENE_COUNT |-> IF (i - 1) \in S THEN "1" ELSE "0"] : S \in SUBSET DrawnPositions}

\* the random source: seeds that random.sample is run with
SampleSeeds == {0, 6}

-----------------------------------------------------------------------------
(* Chromosome *)

\* knapsack[i] raises KeyError for a set gene whose position is no key
KeyError(genes) ==
    \E i \in 0..(Len(genes) - 1) : genes[i + 1] = "1" /\ i \notin DOMAIN knapsack

RECURSIVE fitness_loop(_, _)
fitness_loop(genes, i) ==
    IF i >= Len(genes) THEN 0
    ELSE (IF genes[i + 1] = "1" THEN knapsack[i][1] ELSE 0) + fitness_loop(genes, i + 1)

calculate_fitness(genes) == fitness_loop(genes, 0)

RECURSIVE weight_loop(_, _)
weight_loop(genes, i) ==
    IF i >= Len(genes) THEN 0
    ELSE (IF genes[i + 1] = "1" THEN knapsack[i][2] ELSE 0) + weight_loop(genes, i + 1)

total_weight(genes) == weight_loop(genes, 0)

\* a fresh list object holding genes; the new reference is Len of the result's lists
AllocList(h, genes) == [h EXCEPT !.lists = Append(@, genes)]

\* Chromosome(genes, knapsack): keeps the list reference, caches fitness and weight
Chromosome(h, gid) ==
    IF KeyError(h.lists[gid]) THEN [err |-> TRUE, h |-> h, id |-> 0]
    ELSE [err |-> FALSE,
          h   |-> [h EXCEPT !.chroms = Append(@,
                       [genes   |-> gid,
                        fitness |-> calculate_fitness(h.lists[gid]),
                        weight  |-> total_weight(h.lists[gid])])],
          id  |-> Len(h.chroms) + 1]

\* the genes, fitness and weight an observer reads from chromosome c
View(h, c) ==
    [genes   |-> h.lists[h.chroms[c].genes],
     fitness |-> h.chroms[c].fitness,
     weight  |-> h.chroms[c].weight]

Views(h, pop) == [k \in 1..Len(pop) |-> View(h, pop[k])]

Heap == [chroms |-> chroms, lists |-> lists]

\* Body(val) with val computed once
Let(val, Body(_)) == CHOOSE out \in {Body(v) : v \in {val}} : TRUE

-----------------------------------------------------------------------------
(* Unreachable objects are dropped and references renumbered in order of   *)
(* first use, so that a state does not depend on allocation history.       *)

RECURSIVE Dedup(_)
Dedup(s) ==
    IF s = <<>> THEN <<>>
    ELSE LET d == Dedup(SubSeq(s, 1, Len(s) - 1))
             x == s[Len(s)]
         IN  IF \E k \in 1..Len(d) : d[k] = x THEN d ELSE Append(d, x)

IndexOf(s, x) == CHOOSE k \in 1..Len(s) : s[k] = x

Compact(h, pop) ==
    LET live  == Dedup(pop)
        glive == Dedup([k \in 1..Len(live) |-> h.chroms[live[k]].genes])
    IN  [pop    |-> [k \in 1..Len(pop) |-> IndexOf(live, pop[k])],
         chroms |-> [k \in 1..Len(live) |->
                        [h.chroms[live[k]] EXCEPT !.genes = IndexOf(glive, @)]],
         lists  |-> [k \in 1..Len(glive) |-> h.lists[glive[k]]]]

-----------------------------------------------------------------------------
(* GeneticAlgorithm.__init__ and initialize_population *)

Init ==
    /\ \E cat \in Catalogs : knapsack = cat.items /\ weight_limit = cat.limit
    /\ population_size \in PopSizes
    /\ mutation_rate \in Rates
    /\ population = <<>>
    /\ chroms = <<>>
    /\ lists = <<>>
    /\ status = "constructing"
    /\ raised = ""
    /\ generation = 0
    /\ log = <<>>

\* one pass of the while loop, or its exit and the assignment to self.population
initialize_population ==
    /\ status = "constructing"
    /\ IF Len(population) < population_size
       THEN \E member \in GeneVectors :
              LET h0 == AllocList(Heap, member)
                  mk == Chromosome(h0, Len(h0.lists))
              IN  IF mk.err
                  THEN /\ status' = "ctor_error"
                       /\ raised' = "initialize_population"
                       /\ population' = <<>>
                       /\ chroms' = <<>>
                       /\ lists' = <<>>
                  ELSE IF mk.h.chroms[mk.id].weight <= weight_limit
                  THEN /\ population' = Append(population, mk.id)
                       /\ chroms' = mk.h.chroms
                       /\ lists' = mk.h.lists
                       /\ UNCHANGED <<status, raised>>
                  ELSE UNCHANGED <<population, chroms, lists, status, raised>>
       ELSE /\ status' = "idle"
            /\ UNCHANGED <<population, chroms, lists, raised>>
    /\ UNCHANGED <<knapsack, weight_limit, population_size, mutation_rate,
                   generation, log>>

-----------------------------------------------------------------------------
(* selection *)

\* max(seq, key=lambda c: c.fitness): the first member of maximal fitness
max_fitness(h, pop) ==
    pop[CHOOSE k \in 1..Len(pop) :
            /\ \A j \in 1..Len(pop) : h.chroms[pop[j]].fitness <= h.chroms[pop[k]].fitness
            /\ \A j \in 1..(k - 1) : h.chroms[pop[j]].fitness < h.chroms[pop[k]].fitness]

\* remove that drops the head of the list, as pop(0) does
remove_head(pop, x) == Tail(pop)

\* list.remove(x): drops the first member that is x (Chromosome defines no __eq__)
remove(pop, x) ==
    LET k == CHOOSE j \in 1..Len(pop) : pop[j] = x /\ \A m \in 1..(j - 1) : pop[m] # x
    IN  SubSeq(pop, 1, k - 1) \o SubSeq(pop, k + 1, Len(pop))

\* max() of an empty population raises ValueError after what was removed so far
selection(h, pop) ==
    IF pop = <<>> THEN [err |-> TRUE, pop |-> pop, one |-> 0, two |-> 0]
    ELSE LET one  == max_fitness(h, pop)
             pop1 == remove(pop, one)
         IN  IF pop1 = <<>> THEN [err |-> TRUE, pop |-> pop1, one |-> one, two |-> 0]
             ELSE LET two == max_fitness(h, pop1)
                  IN  [err |-> FALSE, pop |-> remove(pop1, two), one |-> one, two |-> two]

-----------------------------------------------------------------------------
(* crossover *)

Min(a, b) == IF a <= b THEN a ELSE b

\* Python slices s[0:b] and s[a:]
SliceTo(s, b) == SubSeq(s, 1, Min(b, Len(s)))
SliceFrom(s, a) == SubSeq(s, a + 1, Len(s))

\* fallback with the comparison >= in place of >
fallback_ge(h, child, parent) ==
    IF h.chroms[child].weight >= weight_limit THEN parent ELSE child

\* the child kept for a recombined chromosome: the parent replaces an overweight one
fallback(h, child, parent) ==
    IF h.chroms[child].weight > weight_limit THEN parent ELSE child

\* crossover that builds the second child from array1 as well
crossover_same_array(h, parent1, parent2) ==
    LET g1     == h.lists[h.chroms[parent1].genes]
        g2     == h.lists[h.chroms[parent2].genes]
        array1 == SliceTo(g1, SPLIT) \o SliceFrom(g2, SPLIT)
        h1     == AllocList(h, array1)
        mk1    == Chromosome(h1, Len(h1.lists))
        mk2    == Chromosome(mk1.h, Len(h1.lists))
    IN  IF mk1.err \/ mk2.err
        THEN [err |-> TRUE, h |-> h1, child1 |-> 0, child2 |-> 0, new1 |-> 0, new2 |-> 0]
        ELSE [err    |-> FALSE,
              h      |-> mk2.h,
              child1 |-> fallback(mk2.h, mk1.id, parent1),
              child2 |-> fallback(mk2.h, mk2.id, parent2),
              new1   |-> mk1.id,
              new2   |-> mk2.id]

crossover(h, parent1, parent2) ==
    LET g1     == h.lists[h.chroms[parent1].genes]
        g2     == h.lists[h.chroms[parent2].genes]
        array1 == SliceTo(g1, SPLIT) \o SliceFrom(g2, SPLIT)
        array2 == SliceTo(g2, SPLIT) \o SliceFrom(g1, SPLIT)
        h1     == AllocList(h, array1)
        h2     == AllocList(h1, array2)
        mk1    == Chromosome(h2, Len(h1.lists))
        mk2    == Chromosome(mk1.h, Len(h2.lists))
    IN  IF mk1.err \/ mk2.err
        THEN [err |-> TRUE, h |-> h2, child1 |-> 0, child2 |-> 0, new1 |-> 0, new2 |-> 0]
        ELSE [err    |-> FALSE,
              h      |-> mk2.h,
              child1 |-> fallback(mk2.h, mk1.id, parent1),
              child2 |-> fallback(mk2.h, mk2.id, parent2),
              new1   |-> mk1.id,
              new2   |-> mk2.id]

-----------------------------------------------------------------------------
(* mutation *)

\* int(x) of the float a / 100: truncation towards zero
Trunc100(a) == IF a >= 0 THEN a \div 100 ELSE -((-a) \div 100)

\* flip_count with one position too many
flip_count_plus_one(n) == Trunc100(mutation_rate * n) + 1

\* flip_count with round() in place of int()
flip_count_round(n) == Trunc100(mutation_rate * n + 50)

\* number = int(self.mutation_rate * len(chromosome.genes))
flip_count(n) == Trunc100(mutation_rate * n)

\* random.sample(range(n), k) raises ValueError unless 0 <= k <= n
sample_fails(n, k) == k < 0 \/ k > n

\* the k distinct positions random.sample(range(n), k) returns when run with seed
random_sample(n, k, seed) == [j \in 1..k |-> (seed + j - 1) % n]

\* recompute without the assignment to chromosome.fitness
recompute_weight_only(h, c) ==
    [h EXCEPT !.chroms[c].weight = total_weight(h.lists[h.chroms[c].genes])]

\* chromosome.weight = total_weight(...); chromosome.fitness = calculate_fitness(...)
recompute(h, c) ==
    [h EXCEPT !.chroms[c].weight  = total_weight(h.lists[h.chroms[c].genes]),
              !.chroms[c].fitness = calculate_fitness(h.lists[h.chroms[c].genes])]

\* reverts with the limit off by one
reverts_lax(h, c) == h.chroms[c].weight > weight_limit + 1

\* whether the flip just made is undone
reverts(h, c) == h.chroms[c].weight > weight_limit

\* mutation_step that tests the weight before it is recomputed
mutation_step_stale_check(h, c, i) ==
    LET gid           == h.chroms[c].genes
        original_gene == h.lists[gid][i + 1]
    IN  Let([h EXCEPT !.lists[gid][i + 1] = IF original_gene = "1" THEN "0" ELSE "1"],
            LAMBDA h1 :
        IF KeyError(h1.lists[gid]) THEN [err |-> TRUE, h |-> h1]
        ELSE IF reverts(h1, c)
        THEN [err |-> FALSE, h |-> recompute([h1 EXCEPT !.lists[gid][i + 1] = original_gene], c)]
        ELSE [err |-> FALSE, h |-> recompute(h1, c)])

\* one pass of the loop over the sampled positions: flip, recompute, maybe revert
mutation_step(h, c, i) ==
    LET gid           == h.chroms[c].genes
        original_gene == h.lists[gid][i + 1]
    IN  Let([h EXCEPT !.lists[gid][i + 1] = IF original_gene = "1" THEN "0" ELSE "1"],
            LAMBDA h1 :
        IF KeyError(h1.lists[gid]) THEN [err |-> TRUE, h |-> h1]
        ELSE
        Let(recompute(h1, c), LAMBDA h2 :
        IF reverts(h2, c)
        THEN Let([h2 EXCEPT !.lists[gid][i + 1] = original_gene], LAMBDA h3 :
             IF KeyError(h3.lists[gid]) THEN [err |-> TRUE, h |-> h3]
             ELSE [err |-> FALSE, h |-> recompute(h3, c)])
        ELSE [err |-> FALSE, h |-> h2]))

\* for i in numbers; r = [err, h] is the outcome so far
RECURSIVE mutation_loop(_, _, _, _)
mutation_loop(r, c, numbers, k) ==
    IF r.err \/ k > Len(numbers) THEN r
    ELSE Let(mutation_step(r.h, c, numbers[k]),
             LAMBDA v : mutation_loop(v, c, numbers, k + 1))

mutation(h, c, seed) ==
    LET n      == Len(h.lists[h.chroms[c].genes])
        number == flip_count(n)
    IN  IF sample_fails(n, number)
        THEN [err |-> TRUE, h |-> h, numbers |-> <<>>]
        ELSE Let(random_sample(n, number, seed), LAMBDA numbers :
             Let(mutation_loop([err |-> FALSE, h |-> h], c, numbers, 1), LAMBDA r :
                 [err |-> r.err, h |-> r.h, numbers |-> numbers]))

\* random.sample consumes the random source only when it returns positions
SeedsInUse == IF flip_count(GENE_COUNT) \in 1..GENE_COUNT THEN SampleSeeds ELSE {0}

-----------------------------------------------------------------------------
(* evolve *)

\* what one pass of the loop in evolve() did: whether crossover handed back
\* parent1 as child1 and parent2 as child2
LogEntry(sel, cr) == [kept1 |-> cr.child1 = sel.one, kept2 |-> cr.child2 = sel.two]

\* extend that leaves out the second child
extend_first(new_population, c1, c2) == Append(new_population, c1)

\* new_population.extend([c1, c2])
extend(new_population, c1, c2) == new_population \o <<c1, c2>>

\* one pass of the loop in evolve()
\* st = [pop: self.population, newpop: new_population, h: heap, log,
\*       err: the method that raised, "" when none did]
evolve_body(st, seeds) ==
    Let(selection(st.h, st.pop), LAMBDA sel :
    IF sel.err THEN [st EXCEPT !.err = "selection", !.pop = sel.pop]
    ELSE
    Let(crossover(st.h, sel.one, sel.two), LAMBDA cr :
    IF cr.err THEN [st EXCEPT !.err = "crossover", !.pop = sel.pop, !.h = cr.h]
    ELSE
    Let(mutation(cr.h, cr.child1, seeds[1]), LAMBDA m1 :
    IF m1.err THEN [st EXCEPT !.err = "mutation", !.pop = sel.pop, !.h = m1.h]
    ELSE
    Let(mutation(m1.h, cr.child2, seeds[2]), LAMBDA m2 :
    IF m2.err THEN [st EXCEPT !.err = "mutation", !.pop = sel.pop, !.h = m2.h]
    ELSE [pop    |-> sel.pop,
          newpop |-> extend(st.newpop, cr.child1, cr.child2),
          h      |-> m2.h,
          err    |-> "",
          log    |-> Append(st.log, LogEntry(sel, cr))]))))

\* for _ in range(self.population_size // 2)
RECURSIVE evolve_loop(_, _, _)
evolve_loop(st, seeds, i) ==
    IF st.err # "" \/ i > Len(seeds) THEN st
    ELSE Let(evolve_body(st, seeds[i]), LAMBDA v : evolve_loop(v, seeds, i + 1))

\* range() rounded up for an odd population_size
iterations_up == (population_size + 1) \div 2

\* range(self.population_size // 2)
iterations == population_size \div 2

\* the body of evolve() run on the current state with the given samples
evolve_call(seeds) ==
    evolve_loop([pop |-> population, newpop |-> <<>>, h |-> Heap,
                 err |-> "", log |-> <<>>], seeds, 1)

evolve ==
    /\ status = "idle"
    /\ \E seeds \in [1..iterations -> SeedsInUse \X SeedsInUse] :
       \E r \in {evolve_call(seeds)} :
       \E c \in {Compact(r.h, IF r.err # "" THEN r.pop ELSE r.newpop)} :
         /\ population' = c.pop
         /\ chroms' = c.chroms
         /\ lists' = c.lists
         /\ status' = IF r.err # "" THEN "evolve_error" ELSE "idle"
         /\ raised' = r.err
         /\ log' = r.log
    /\ generation' = IF generation < 2 THEN generation + 1 ELSE generation
    /\ UNCHANGED <<knapsack, weight_limit, population_size, mutation_rate>>

\* get_solution: max() of an empty population raises ValueError
get_solution_fails == population = <<>>
get_solution == max_fitness(Heap, population)

-----------------------------------------------------------------------------
Next == initialize_population \/ evolve

Spec == Init /\ [][Next]_vars

\* the while loop of initialize_population keeps running: a pass that rejects
\* its draw leaves the state as it is, and a loop whose draws range over every
\* gene vector again and again does not make such passes only
FairSpec == Spec /\ WF_vars(initialize_population)

-----------------------------------------------------------------------------
(* Vocabulary of the properties.  Sums are taken over the set of selected   *)
(* items, not by the loops of the Chromosome class.                         *)

Selected(genes) == {i \in 0..(Len(genes) - 1) : genes[i + 1] = "1"}

RECURSIVE SumOver(_, _)
SumOver(S, col) ==
    IF S = {} THEN 0
    ELSE LET x == CHOOSE y \in S : TRUE
         IN  knapsack[x][col] + SumOver(S \ {x}, col)

Worth(genes) == SumOver(Selected(genes), 1)
Load(genes) == SumOver(Selected(genes), 2)

\* what an observer reads from chromosome v is feasible / is not stale
FeasibleView(v) == v.weight <= weight_limit /\ Load(v.genes) <= weight_limit
FreshView(v) == v.fitness = Worth(v.genes) /\ v.weight = Load(v.genes)

Members == {population[k] : k \in 1..Len(population)}
Positions == 1..Len(population)

\* the positions at which two gene lists differ
Differ(g1, g2) == {i \in 0..(Len(g1) - 1) : g1[i + 1] # g2[i + 1]}

\* the highest cached fitness in the population
BestFitness ==
    CHOOSE f \in {chroms[c].fitness : c \in Members} :
        \A c \in Members : chroms[c].fitness <= f

\* floor(r * n) for the rate r = mutation_rate / 100
FloorRate(n) == (mutation_rate * n) \div 100

RateInUnitInterval == 0 <= mutation_rate /\ mutation_rate <= 100

\* an evolve() call that returned
EvolveReturned == status = "idle" /\ status' = "idle"

\* an evolve() call that raised
EvolveRaised == status = "idle" /\ status' = "evolve_error"

-----------------------------------------------------------------------------
\* C1: every chromosome of the population weighs at most weight_limit, while
\* the population is built, after construction and after every evolve(); and
\* so does every chromosome crossover returns for two members and every
\* chromosome mutation returns for a member.
C1_Feasibility ==
    /\ \A c \in Members : FeasibleView(View(Heap, c))
    /\ \A i \in Positions : \A j \in Positions \ {i} :
         \A cr \in {crossover(Heap, population[i], population[j])} :
           ~cr.err =>
             /\ FeasibleView(View(cr.h, cr.child1))
             /\ FeasibleView(View(cr.h, cr.child2))
    /\ \A c \in Members : \A seed \in SampleSeeds :
         \A m \in {mutation(Heap, c, seed)} : ~m.err => FeasibleView(View(m.h, c))

\* an evolve() call returned whose crossover fell back to a parent and whose
\* mutation flipped genes
C1_Witness ==
    /\ status = "idle" /\ generation >= 1 /\ population # <<>>
    /\ flip_count(GENE_COUNT) \in 1..GENE_COUNT
    /\ \E k \in 1..Len(log) : log[k].kept1 \/ log[k].kept2

\* C2: the cached fitness and weight of every chromosome of the population
\* are the sums over its selected items, and so are those of the chromosome
\* mutation returns for a member, whether its flips were kept or reverted.
C2_Consistency ==
    /\ \A c \in Members : FreshView(View(Heap, c))
    /\ \A c \in Members : \A seed \in SampleSeeds :
         \A m \in {mutation(Heap, c, seed)} : ~m.err => FreshView(View(m.h, c))

\* after an evolve() call, a member for which mutation keeps one flip and
\* reverts another
C2_Witness ==
    /\ status = "idle" /\ generation >= 1 /\ mutation_rate = 25
    /\ \E c \in Members : \E seed \in SampleSeeds :
         \E m \in {mutation(Heap, c, seed)} :
           /\ ~m.err
           /\ Cardinality(Differ(View(Heap, c).genes, View(m.h, c).genes)) = 1

\* C3: after every evolve() call that returns, the first and the later ones,
\* the population holds 2 * floor(population_size / 2) chromosomes, for even
\* and odd population_size >= 0.
C3_PopulationSize ==
    (status = "idle" /\ generation >= 1 /\ population_size >= 0)
        => Len(population) = 2 * (population_size \div 2)

\* a second or later evolve() call returned for an odd population_size
C3_Witness ==
    /\ status = "idle" /\ generation = 2
    /\ population_size = 3 /\ Len(population) = 2

\* C4 as claimed: with mutation_rate = 0, an evolve() call in which every
\* crossover handed back at least one parent does not lower the best fitness.
C4_Original ==
    [][(/\ EvolveReturned /\ mutation_rate = 0
        /\ population # <<>> /\ population' # <<>>
        /\ \A k \in 1..Len(log') : log'[k].kept1 \/ log'[k].kept2)
       => BestFitness' >= BestFitness]_vars

\* C4 as amended: with mutation_rate = 0, an evolve() call whose first
\* crossover handed back parent1, the fittest member, does not lower the
\* best fitness.
C4_Amended ==
    [][(/\ EvolveReturned /\ mutation_rate = 0
        /\ population # <<>> /\ population' # <<>>
        /\ log'[1].kept1)
       => BestFitness' >= BestFitness]_vars

\* an evolve() call with mutation_rate = 0 returned whose first crossover
\* handed back parent1
C4_Witness ==
    /\ status = "idle" /\ generation >= 1 /\ mutation_rate = 0
    /\ population # <<>> /\ log[1].kept1

\* C5 as claimed: every chromosome has one gene for each item of the catalog.
C5_GeneLength ==
    \A c \in Members : Len(View(Heap, c).genes) = Cardinality(DOMAIN knapsack)

\* the genes crossover recombines from the gene lists g1 and g2
Recombined(g1, g2) == [k \in 1..Len(g1) |-> IF k <= SPLIT THEN g1[k] ELSE g2[k]]

\* C6: crossover returns parent1 itself as first child exactly when the
\* recombination of parent1's first part with parent2's second part is over
\* weight_limit, and otherwise a new chromosome with the recombined genes;
\* likewise parent2 and the mirrored recombination for the second child;
\* the two decisions do not depend on each other.
C6_Fallback ==
    \A i \in Positions : \A j \in Positions \ {i} :
      \A cr \in {crossover(Heap, population[i], population[j])} :
        LET p1   == population[i]
            p2   == population[j]
            rec1 == Recombined(View(Heap, p1).genes, View(Heap, p2).genes)
            rec2 == Recombined(View(Heap, p2).genes, View(Heap, p1).genes)
        IN  ~cr.err =>
              /\ Load(rec1) > weight_limit => cr.child1 = p1
              /\ Load(rec2) > weight_limit => cr.child2 = p2
              /\ Load(rec1) <= weight_limit =>
                    /\ cr.child1 \notin DOMAIN chroms
                    /\ View(cr.h, cr.child1).genes = rec1
              /\ Load(rec2) <= weight_limit =>
                    /\ cr.child2 \notin DOMAIN chroms
                    /\ View(cr.h, cr.child2).genes = rec2
              /\ View(cr.h, p1) = View(Heap, p1)
              /\ View(cr.h, p2) = View(Heap, p2)

\* an evolve() call returned in which crossover handed back parent2 and a
\* recombined first child
C6_Witness ==
    /\ status = "idle" /\ generation >= 1
    /\ \E k \in 1..Len(log) : log[k].kept2 /\ ~log[k].kept1

\* C7: for a rate r in [0, 1] and a chromosome of n genes, mutation samples
\* floor(r * n) positions, pairwise distinct and within 0..n-1, and the
\* returned genes differ from the input only at sampled positions, hence at
\* no more than floor(r * n) of them.
C7_FlipCount ==
    RateInUnitInterval =>
      \A c \in Members : \A seed \in SampleSeeds :
        \A m \in {mutation(Heap, c, seed)} :
          LET n == Len(View(Heap, c).genes)
          IN  /\ Len(m.numbers) = FloorRate(n)
              /\ \A a \in 1..Len(m.numbers) : m.numbers[a] \in 0..(n - 1)
              /\ \A a \in 1..Len(m.numbers) : \A b \in 1..Len(m.numbers) :
                    a # b => m.numbers[a] # m.numbers[b]
              /\ ~m.err =>
                    /\ Differ(View(Heap, c).genes, View(m.h, c).genes)
                          \subseteq {m.numbers[a] : a \in 1..Len(m.numbers)}
                    /\ Cardinality(Differ(View(Heap, c).genes, View(m.h, c).genes))
                          <= FloorRate(n)

\* after an evolve() call with rate 1.0, a member for which mutation tries all
\* ten positions and keeps some flips
C7_Witness ==
    /\ status = "idle" /\ generation >= 1 /\ mutation_rate = 100
    /\ \E c \in Members : \E seed \in SampleSeeds :
         \E m \in {mutation(Heap, c, seed)} :
           /\ ~m.err
           /\ Len(m.numbers) = GENE_COUNT
           /\ Differ(View(Heap, c).genes, View(m.h, c).genes) # {}

\* C8 as claimed: an evolve() call that raises leaves the population, its
\* members and their genes, as it was before the call.
C8_NoPartialEvolve ==
    [][EvolveRaised => Views(Heap, population)' = Views(Heap, population)]_vars

\* the configurations the constructor is documented to accept
ValidConfiguration ==
    /\ RateInUnitInterval
    /\ population_size > 0
    /\ Cardinality(DOMAIN knapsack) = GENE_COUNT

\* C9 as claimed: an engine with a population exists only for a valid
\* configuration.
C9_InvalidConfigurationRejected == status = "idle" => ValidConfiguration

-----------------------------------------------------------------------------
\* the catalog has an item for every gene initialize_population draws
FullCatalog == \A i \in 0..(GENE_COUNT - 1) : i \in DOMAIN knapsack

\* the constructor returned: the population is the one it collected
Constructed == status = "idle" /\ generation = 0

\* C11 as claimed: for every catalog and every population_size >= 0, under
\* fair draws, initialize_population terminates with exactly population_size
\* chromosomes; a pass that rejects its draw leaves the collected population
\* as it was.
C11_Termination ==
    /\ (status = "constructing" /\ population_size >= 0)
          ~> (Constructed /\ Len(population) = population_size)
    /\ [][(status = "constructing" /\ status' = "constructing")
            => \/ Views(Heap, population)' = Views(Heap, population)
               \/ /\ Len(population') = Len(population) + 1
                  /\ SubSeq(Views(Heap, population)', 1, Len(population))
                        = Views(Heap, population)]_vars

\* C11 for the catalogs that have an item for each of the ten genes: under
\* fair draws the loop ends with exactly population_size chromosomes.
C11_TerminationFullCatalog ==
    (status = "constructing" /\ population_size >= 0 /\ FullCatalog)
        ~> (Constructed /\ Len(population) = population_size)

-----------------------------------------------------------------------------
\* the sequence s without the positions in S, the others in their order
RECURSIVE Without(_, _)
Without(s, S) ==
    IF s = <<>> THEN <<>>
    ELSE LET r == Without(SubSeq(s, 1, Len(s) - 1), S)
         IN  IF Len(s) \in S THEN r ELSE Append(r, s[Len(s)])

-----------------------------------------------------------------------------
\* the gene list g with the genes at the positions in S flipped
Flip(g, S) ==
    [k \in 1..Len(g) |-> IF (k - 1) \in S THEN (IF g[k] = "1" THEN "0" ELSE "1") ELSE g[k]]

\* the positions among the first k of numbers whose flip is kept: a flip is
\* kept when the selection with the flips kept before it and this one fits
RECURSIVE KeptFlips(_, _, _)
KeptFlips(g, numbers, k) ==
    IF k = 0 THEN {}
    ELSE Let(KeptFlips(g, numbers, k - 1), LAMBDA K :
             IF Load(Flip(g, K \cup {numbers[k]})) <= weight_limit
             THEN K \cup {numbers[k]} ELSE K)

\* C13: mutation processes the sampled positions in order; a flip is kept
\* exactly when the chromosome with the flips kept so far and this flip
\* weighs at most weight_limit, and is undone otherwise; the returned genes
\* differ from the input exactly at the kept positions, so a flip undone
\* early stays undone when later flips make room for it.
C13_SequentialRevert ==
    \A c \in Members : \A seed \in SampleSeeds :
      \A m \in {mutation(Heap, c, seed)} :
        ~m.err =>
          \A kept \in {KeptFlips(View(Heap, c).genes, m.numbers, Len(m.numbers))} :
            /\ View(m.h, c).genes = Flip(View(Heap, c).genes, kept)
            /\ Differ(View(Heap, c).genes, View(m.h, c).genes) = kept

\* after an evolve() call, a member for which mutation undoes a flip that
\* would fit once the later flips are made
C13_Witness ==
    /\ status = "idle" /\ generation >= 1
    /\ \E c \in Members : \E seed \in SampleSeeds :
         \E m \in {mutation(Heap, c, seed)} :
           /\ ~m.err
           /\ \E a \in 1..Len(m.numbers) :
                /\ m.numbers[a] \notin Differ(View(Heap, c).genes, View(m.h, c).genes)
                /\ \E b \in (a + 1)..Len(m.numbers) :
                     m.numbers[b] \in Differ(View(Heap, c).genes, View(m.h, c).genes)
                /\ Load(Flip(View(m.h, c).genes, {m.numbers[a]})) <= weight_limit

-----------------------------------------------------------------------------
\* the number of items of the catalog
ItemCount == Cardinality(DOMAIN knapsack)

\* g1 up to the split point floor(N / 2), g2 from there to N
RecombinedAtHalf(g1, g2) ==
    [k \in 1..ItemCount |-> IF k <= ItemCount \div 2 THEN g1[k] ELSE g2[k]]

\* C14 as claimed: for a catalog of N items the chromosomes crossover builds
\* have N genes, those of parent1 before floor(N / 2) and of parent2 from
\* there on for the first, mirrored for the second; the parents' genes are
\* left as they were.
C14_SplitAtHalf ==
    status = "idle" =>
      \A i \in Positions : \A j \in Positions \ {i} :
        \A cr \in {crossover(Heap, population[i], population[j])} :
          LET g1 == View(Heap, population[i]).genes
              g2 == View(Heap, population[j]).genes
          IN  ~cr.err =>
                /\ View(cr.h, cr.new1).genes = RecombinedAtHalf(g1, g2)
                /\ View(cr.h, cr.new2).genes = RecombinedAtHalf(g2, g1)
                /\ View(cr.h, population[i]).genes = g1
                /\ View(cr.h, population[j]).genes = g2

\* C14 for the catalogs of ten items: the split of the code is floor(N / 2).
C14_SplitAtFive ==
    (status = "idle" /\ ItemCount = GENE_COUNT) => C14_SplitAtHalf

-----------------------------------------------------------------------------
\* the samples an evolve() call on the current state can be run with
SeedChoices == [1..iterations -> SeedsInUse \X SeedsInUse]

\* C15 as claimed: evolve() leaves the genes, fitness and weight of every
\* chromosome that was a member before the call, the one Best() returned
\* included, as they were.
C15_ValueLike ==
    status = "idle" =>
      \A seeds \in SeedChoices : \A r \in {evolve_call(seeds)} :
        \A c \in Members : View(r.h, c) = View(Heap, c)

\* C15 for the members that crossover does not hand back: evolve() leaves
\* every member unchanged that is not returned as a child of its own pair.
C15_ReplacedParentsUnchanged ==
    status = "idle" =>
      \A seeds \in SeedChoices : \A r \in {evolve_call(seeds)} :
        \A c \in Members :
          (r.err = "" /\ \A k \in 1..Len(r.newpop) : r.newpop[k] # c)
              => View(r.h, c) = View(Heap, c)

\* C16: for population_size >= 0 no selection() call of any evolve() call
\* finds fewer than 2 members: no evolve() call raises in selection, and
\* every evolve() call starts with at least 2 * floor(population_size / 2)
\* members.
C16_SelectionNeverExhausted ==
    population_size >= 0 =>
      /\ raised # "selection"
      /\ status = "idle" => Len(population) >= 2 * (population_size \div 2)

\* a second or later evolve() call ran its selection on the 2 members the
\* call before left of an odd-sized population
C16_Witness ==
    /\ status = "idle" /\ generation = 2 /\ population_size = 3
    /\ Len(log) = 1 /\ raised = ""

\* C17: at every point the members of the population are pairwise distinct
\* chromosome objects with pairwise distinct gene lists, and the in-place
\* mutation of one member changes nothing an observer reads from another.
C17_NoSharing ==
    /\ \A i \in Positions : \A j \in Positions \ {i} :
         /\ population[i] # population[j]
         /\ chroms[population[i]].genes # chroms[population[j]].genes
    /\ \A c \in Members : \A seed \in SampleSeeds :
         \A m \in {mutation(Heap, c, seed)} :
           \A d \in Members \ {c} : View(m.h, d) = View(Heap, d)

\* an evolve() call returned two members, one of them a parent handed back by
\* crossover, and mutation changes the genes of the first of them
C17_Witness ==
    /\ status = "idle" /\ generation >= 1 /\ Len(population) = 2
    /\ log[1].kept1 \/ log[1].kept2
    /\ \E seed \in SampleSeeds : \E m \in {mutation(Heap, population[1], seed)} :
         ~m.err /\ View(m.h, population[1]).genes # View(Heap, population[1]).genes

====
